---- MODULE Spec2Model ----
(***************************************************************************)
(* Model of bot.py: the two-source price / history lookup (get_price,      *)
(* get_history with the MOEX and Yahoo adapters) and build_analysis (the   *)
(* indicator columns and the BUY / SELL / unclear decision).               *)
(*                                                                         *)
(* float64 values are modelled as fixed-point numbers with FxScale units   *)
(* per 1.0, tagged so that None, NaN and the infinities keep the meaning   *)
(* they have in Python / numpy.                                            *)
(***************************************************************************)
EXTENDS Integers, Sequences, FiniteSets, TLC

\* ------------------------------------------------------------------------
\* Bounds of the model
\* ------------------------------------------------------------------------
MaxRows == 2
MaxDate == 2
MaxClose == 2
MaxPrice == 2
MaxLen == 25
MaxStep == 2

\* ------------------------------------------------------------------------
\* Program constants
\* ------------------------------------------------------------------------
ShortWindow == 5
LongWindow == 20
RsiWindow == 14
FastSpan == 12
SlowSpan == 26
SignalSpan == 9
Overbought == 70
Oversold == 30
FxScale == 1000

\* first close of the generated trend tables
Starts == {100}

\* ------------------------------------------------------------------------
\* Values: Python None, and float64 as NaN / +inf / -inf / fixed point
\* ------------------------------------------------------------------------
None == [k |-> "none", v |-> 0]
NaN == [k |-> "nan", v |-> 0]
Inf == [k |-> "inf", v |-> 0]
NegInf == [k |-> "ninf", v |-> 0]
Num(x) == [k |-> "num", v |-> x]
Float(x) == Num(x * FxScale)

IsNum(a) == a.k = "num"
IsNaN(a) == a.k = "nan"

\* a > b on floats: every comparison with NaN is False
Gt(a, b) == IsNum(a) /\ IsNum(b) /\ a.v > b.v
Lt(a, b) == IsNum(a) /\ IsNum(b) /\ a.v < b.v

Add(a, b) ==
    CASE IsNaN(a) \/ IsNaN(b) -> NaN
      [] a.k = "inf" /\ b.k = "ninf" -> NaN
      [] a.k = "ninf" /\ b.k = "inf" -> NaN
      [] a.k = "inf" \/ b.k = "inf" -> Inf
      [] a.k = "ninf" \/ b.k = "ninf" -> NegInf
      [] OTHER -> Num(a.v + b.v)

Neg(a) ==
    CASE a.k = "inf" -> NegInf
      [] a.k = "ninf" -> Inf
      [] a.k = "num" -> Num(0 - a.v)
      [] OTHER -> a

Sub(a, b) == Add(a, Neg(b))

\* a / b on floats (numpy): x/0 is +-inf, 0/0 is NaN, x/inf is 0
DivZeroIsNaN(a, b) ==
    CASE IsNaN(a) \/ IsNaN(b) -> NaN
      [] ~IsNum(a) /\ ~IsNum(b) -> NaN
      [] ~IsNum(b) -> Num(0)
      [] ~IsNum(a) -> IF (a.k = "inf") = (b.v >= 0) THEN Inf ELSE NegInf
      [] b.v = 0 -> NaN
      [] OTHER -> Num((a.v * FxScale) \div b.v)
Div(a, b) ==
    CASE IsNaN(a) \/ IsNaN(b) -> NaN
      [] ~IsNum(a) /\ ~IsNum(b) -> NaN
      [] ~IsNum(b) -> Num(0)
      [] ~IsNum(a) -> IF (a.k = "inf") = (b.v >= 0) THEN Inf ELSE NegInf
      [] b.v = 0 /\ a.v > 0 -> Inf
      [] b.v = 0 /\ a.v < 0 -> NegInf
      [] b.v = 0 -> NaN
      [] OTHER -> IF b.v > 0 THEN Num((a.v * FxScale) \div b.v)
                  ELSE Num(((0 - a.v) * FxScale) \div (0 - b.v))

\* Series.clip(lower=0) / Series.clip(upper=0): NaN stays NaN
ClipLower0(a) == IF IsNum(a) /\ a.v < 0 THEN Num(0) ELSE a
ClipUpper0(a) == IF IsNum(a) /\ a.v > 0 THEN Num(0) ELSE a

\* ------------------------------------------------------------------------
\* Series operations of pandas, on sequences of values
\* ------------------------------------------------------------------------
RECURSIVE SumWindow(_, _, _)
SumWindow(xs, lo, hi) ==
    IF lo > hi THEN 0 ELSE xs[hi].v + SumWindow(xs, lo, hi - 1)

\* Series.rolling(w).mean() at row i: min_periods defaults to w, so the
\* value is NaN unless the window holds w non-NaN observations
RollingMeanMin1(xs, w, i) ==
    LET lo == IF i - w + 1 < 1 THEN 1 ELSE i - w + 1
    IN IF \E j \in lo..i : ~IsNum(xs[j]) THEN NaN
       ELSE Num(SumWindow(xs, lo, i) \div (i - lo + 1))
RollingMean(xs, w, i) ==
    IF i < w \/ \E j \in (i - w + 1)..i : ~IsNum(xs[j]) THEN NaN
    ELSE Num(SumWindow(xs, i - w + 1, i) \div w)

\* Series.diff()
Diff(xs) ==
    [i \in 1..Len(xs) |-> IF i = 1 THEN NaN ELSE Sub(xs[i], xs[i - 1])]

RECURSIVE Pow(_, _)
Pow(b, e) == IF e = 0 THEN 1 ELSE b * Pow(b, e - 1)

\* one step of Series.ewm(span=span, adjust=False).mean(): st.w is the
\* running average, st.k the number of decays of the old weight since the
\* last observation, alpha = 2 / (span + 1)
EwmStep(st, cur, span) ==
    IF IsNum(st.w)
    THEN IF IsNum(cur)
         THEN LET k == st.k + 1
                  oldw == Pow(span - 1, k)
                  neww == 2 * Pow(span + 1, k - 1)
              IN [w |-> IF st.w = cur THEN st.w
                        ELSE Num((oldw * st.w.v + neww * cur.v) \div (oldw + neww)),
                  k |-> 0]
         ELSE [w |-> st.w, k |-> st.k + 1]
    ELSE [w |-> cur, k |-> 0]

RECURSIVE EwmFrom(_, _, _, _, _)
EwmFrom(xs, span, i, st, acc) ==
    IF i > Len(xs) THEN acc
    ELSE LET st2 == IF i = 1 THEN [w |-> xs[1], k |-> 0]
                    ELSE EwmStep(st, xs[i], span)
         IN EwmFrom(xs, span, i + 1, st2, Append(acc, st2.w))

Ewm(xs, span) == EwmFrom(xs, span, 1, [w |-> NaN, k |-> 0], <<>>)

\* ------------------------------------------------------------------------
\* Upstream responses (the inputs of the adapters)
\* ------------------------------------------------------------------------
JNull == [t |-> "null", v |-> 0]
JText == [t |-> "text", v |-> 0]
JNum(x) == [t |-> "num", v |-> x]

CloseCells == {JNull, JText} \cup {JNum(c) : c \in 1..MaxClose}
RawRows == [Date : 1..MaxDate, Close : CloseCells]

\* tables of at most MaxRows rows: any order, repeated dates, null or
\* non-numeric closes
RECURSIVE TablesOfLen(_)
TablesOfLen(n) ==
    IF n = 0 THEN {<<>>}
    ELSE {Append(t, r) : t \in TablesOfLen(n - 1), r \in RawRows}
ShortTables == UNION {TablesOfLen(n) : n \in 0..MaxRows}

\* daily tables of len rows whose close moves by a, b, a, b, ...
TrendTable(s, len, a, b) ==
    [i \in 1..len |->
        [Date |-> i,
         Close |-> JNum(s + a * (i \div 2) + b * ((i - 1) \div 2))]]
TrendTables ==
    {TrendTable(s, len, a, b) : s \in Starts, len \in 1..MaxLen,
                                a \in (0 - MaxStep)..MaxStep,
                                b \in (0 - MaxStep)..MaxStep}

Tables == ShortTables \cup TrendTables

Failed(t) == [transport |-> t, status |-> "none", kind |-> "none",
              rows |-> <<>>, cell |-> JNull]
TransportFailures == {Failed("network_error"), Failed("timeout")}

HistoryResponses ==
    TransportFailures
    \cup {[transport |-> "ok", status |-> s, kind |-> kd, rows |-> <<>>,
           cell |-> JNull] :
             s \in {"ok", "http_error"}, kd \in {"not_json", "missing_field"}}
    \cup {[transport |-> "ok", status |-> s, kind |-> "table", rows |-> t,
           cell |-> JNull] : s \in {"ok", "http_error"}, t \in Tables}

PriceCells == {JNull, JText} \cup {JNum(p) : p \in 0..MaxPrice}
PriceResponses ==
    TransportFailures
    \cup {[transport |-> "ok", status |-> s, kind |-> kd, rows |-> <<>>,
           cell |-> JNull] :
             s \in {"ok", "http_error"},
             kd \in {"not_json", "missing_field", "no_rows", "empty_row"}}
    \cup {[transport |-> "ok", status |-> s, kind |-> "value", rows |-> <<>>,
           cell |-> c] : s \in {"ok", "http_error"}, c \in PriceCells}

\* the failure mode a response exhibits ("none": a well-formed answer)
FaultOf(resp) ==
    CASE resp.transport # "ok" -> resp.transport
      [] resp.status # "ok" -> "http_error"
      [] resp.kind = "not_json" -> "malformed_payload"
      [] resp.kind \in {"missing_field", "empty_row"} -> "missing_field"
      [] resp.kind = "table"
           /\ \E i \in 1..Len(resp.rows) : resp.rows[i].Close.t = "text"
         -> "non_numeric"
      [] resp.kind = "value" /\ resp.cell.t = "text" -> "non_numeric"
      [] OTHER -> "none"

\* ------------------------------------------------------------------------
\* Adapters.  An outcome is [exc, val]: exc says that an exception leaves
\* the function, val is the value it returns otherwise.
\* ------------------------------------------------------------------------
EmptyDf == <<>>
Raise(dflt) == [exc |-> TRUE, val |-> dflt]
Return(x) == [exc |-> FALSE, val |-> x]

\* astype(float) of one cell: None becomes NaN
AsFloat(c) == IF c.t = "null" THEN NaN ELSE Float(c.v)

\* DataFrame(rows, columns=["Date", "Close"]).set_index("Date")[["Close"]]
\*   .astype(float): the rows as they came, in the order they came
ToFrame(rows) ==
    [i \in 1..Len(rows) |-> [Date |-> rows[i].Date, Close |-> AsFloat(rows[i].Close)]]

\* the try block of _moex_history
MoexHistoryTry(resp) ==
    IF resp.transport # "ok" THEN Raise(EmptyDf)
    ELSE IF resp.status # "ok" THEN Raise(EmptyDf)
    ELSE IF resp.kind = "not_json" THEN Raise(EmptyDf)
    ELSE LET rows == IF resp.kind = "table" THEN resp.rows ELSE <<>>
         IN IF \E i \in 1..Len(rows) : rows[i].Close.t = "text"
            THEN Raise(EmptyDf)
            ELSE Return(ToFrame(rows))

\* _moex_history: except Exception: return pd.DataFrame()
MoexHistory(resp) ==
    LET o == MoexHistoryTry(resp)
    IN IF o.exc THEN Return(EmptyDf) ELSE o

\* the try block of _yahoo_history: yf.download, data[["Close"]].astype(float)
YahooHistoryTry(resp) ==
    IF resp.transport # "ok" THEN Raise(EmptyDf)
    ELSE IF resp.status # "ok" THEN Raise(EmptyDf)
    ELSE IF resp.kind # "table" THEN Raise(EmptyDf)
    ELSE IF \E i \in 1..Len(resp.rows) : resp.rows[i].Close.t = "text"
         THEN Raise(EmptyDf)
         ELSE Return(ToFrame(resp.rows))

YahooHistory(resp) ==
    LET o == YahooHistoryTry(resp)
    IN IF o.exc THEN Return(EmptyDf) ELSE o

\* the try block of _moex_price: the status of the response is not looked at
MoexPriceTry(resp) ==
    IF resp.transport # "ok" THEN Raise(None)
    ELSE IF resp.kind = "not_json" THEN Raise(None)
    ELSE IF resp.kind \in {"missing_field", "no_rows"} THEN Return(None)
    ELSE IF resp.kind = "empty_row" THEN Raise(None)
    ELSE IF resp.cell.t = "null" THEN Return(None)
    ELSE IF resp.cell.t = "text" THEN Raise(None)
    ELSE Return(Float(resp.cell.v))

MoexPrice(resp) ==
    LET o == MoexPriceTry(resp)
    IN IF o.exc THEN Return(None) ELSE o

\* the try block of _yahoo_price: Ticker(t).history(period="1d")
YahooPriceTry(resp) ==
    IF resp.transport # "ok" THEN Raise(None)
    ELSE IF resp.status # "ok" THEN Raise(None)
    ELSE IF resp.kind \in {"not_json", "missing_field", "empty_row"} THEN Raise(None)
    ELSE IF resp.kind = "no_rows" THEN Return(None)
    ELSE IF resp.cell.t = "text" THEN Raise(None)
    ELSE Return(AsFloat(resp.cell))

YahooPrice(resp) ==
    LET o == YahooPriceTry(resp)
    IN IF o.exc THEN Return(None) ELSE o

\* DataFrame.empty: no rows (or no columns)
DfEmptyAlways(d) == TRUE
DfEmpty(d) == Len(d) = 0

\* truth value of a price: None and 0.0 are false, NaN is true
Truthy(p) == ~(p.k = "none") /\ ~(p.k = "num" /\ p.v = 0)

\* ------------------------------------------------------------------------
\* build_analysis: indicator columns, last row, decision
\* ------------------------------------------------------------------------
CloseOf(d) == [i \in 1..Len(d) |-> d[i].Close]

NoRow == [Close |-> None, ma5 |-> None, ma20 |-> None, rsi |-> None,
          macd |-> None, signal |-> None]
NoParts == [gain |-> None, loss |-> None, rs |-> None]

\* gain, loss and rs at the last row
RsiParts(d) ==
    LET close == CloseOf(d)
        n == Len(d)
        delta == Diff(close)
        gains == [i \in 1..n |-> ClipLower0(delta[i])]
        losses == [i \in 1..n |-> Neg(ClipUpper0(delta[i]))]
        gain == RollingMean(gains, RsiWindow, n)
        loss == RollingMean(losses, RsiWindow, n)
    IN [gain |-> gain, loss |-> loss, rs |-> Div(gain, loss)]

\* df.iloc[-1] after the indicator columns are added
LastRow(d) ==
    LET close == CloseOf(d)
        n == Len(d)
        rs == RsiParts(d).rs
        ema12 == Ewm(close, FastSpan)
        ema26 == Ewm(close, SlowSpan)
        macd == [i \in 1..n |-> Sub(ema12[i], ema26[i])]
        sig == Ewm(macd, SignalSpan)
    IN [Close |-> close[n],
        ma5 |-> RollingMean(close, ShortWindow, n),
        ma20 |-> RollingMean(close, LongWindow, n),
        rsi |-> Sub(Float(100), Div(Float(100), Add(Float(1), rs))),
        macd |-> macd[n],
        signal |-> sig[n]]

\* the if / elif / else that appends the signal line
EvaluateInclusive(last) ==
    IF Gt(last.ma5, last.ma20) /\ Gt(last.macd, last.signal)
         /\ ~Gt(last.rsi, Float(Overbought)) /\ IsNum(last.rsi)
    THEN "BUY"
    ELSE IF Lt(last.ma5, last.ma20) /\ Lt(last.macd, last.signal)
              /\ ~Lt(last.rsi, Float(Oversold)) /\ IsNum(last.rsi)
    THEN "SELL"
    ELSE "NEUTRAL"
EvaluateNoRsi(last) ==
    IF Gt(last.ma5, last.ma20) /\ Gt(last.macd, last.signal)
    THEN "BUY"
    ELSE IF Lt(last.ma5, last.ma20) /\ Lt(last.macd, last.signal)
    THEN "SELL"
    ELSE "NEUTRAL"
Evaluate(last) ==
    IF Gt(last.ma5, last.ma20) /\ Gt(last.macd, last.signal)
         /\ Lt(last.rsi, Float(Overbought))
    THEN "BUY"
    ELSE IF Lt(last.ma5, last.ma20) /\ Lt(last.macd, last.signal)
              /\ Gt(last.rsi, Float(Oversold))
    THEN "SELL"
    ELSE "NEUTRAL"

\* what build_analysis returns for the frame get_history gave it
AnalysisDefaultsNeutral(d) ==
    IF DfEmpty(d)
    THEN [report |-> "analysis", last |-> NoRow, parts |-> NoParts,
          line |-> "NEUTRAL"]
    ELSE LET row == LastRow(d)
         IN [report |-> "analysis", last |-> row, parts |-> RsiParts(d),
             line |-> Evaluate(row)]
Analysis(d) ==
    IF DfEmpty(d)
    THEN [report |-> "no_data", last |-> NoRow, parts |-> NoParts,
          line |-> "NONE"]
    ELSE LET row == LastRow(d)
         IN [report |-> "analysis", last |-> row, parts |-> RsiParts(d),
             line |-> Evaluate(row)]

\* ------------------------------------------------------------------------
\* State
\* ------------------------------------------------------------------------
VARIABLES
    pc,          \* where the request is: idle, primary, secondary, analyse, row, done
    op,          \* "price" (get_price), "analysis" (build_analysis), "evaluate"
    calls,       \* the adapters invoked so far, in order
    moexFault,   \* failure mode of the response the MOEX adapter got
    yahooFault,  \* failure mode of the response the Yahoo adapter got
    moexDf,      \* what _moex_history returned
    yahooDf,     \* what _yahoo_history returned
    moexPrice,   \* what _moex_price returned
    yahooPrice,  \* what _yahoo_price returned
    df,          \* what get_history returned
    price,       \* what get_price returned
    last,        \* df.iloc[-1] with the indicator columns
    parts,       \* gain, loss and rs at the last row
    line,        \* the signal line: BUY, SELL, NEUTRAL; NONE when there is none
    report,      \* none, no_data, analysis
    raised       \* an exception left the operation

vars == <<pc, op, calls, moexFault, yahooFault, moexDf, yahooDf, moexPrice,
          yahooPrice, df, price, last, parts, line, report, raised>>

Fresh(p, o, l) ==
    /\ pc = p
    /\ op = o
    /\ calls = <<>>
    /\ moexFault = "none"
    /\ yahooFault = "none"
    /\ moexDf = EmptyDf
    /\ yahooDf = EmptyDf
    /\ moexPrice = None
    /\ yahooPrice = None
    /\ df = EmptyDf
    /\ price = None
    /\ last = l
    /\ parts = NoParts
    /\ line = "NONE"
    /\ report = "none"
    /\ raised = FALSE

Init == Fresh("idle", "none", NoRow)

\* on_callback dispatches price_<ticker> to get_price and analysis_<ticker>
\* to build_analysis; every request starts from nothing
Start(o) ==
    /\ pc \in {"idle", "done"}
    /\ pc' = "primary"
    /\ op' = o
    /\ calls' = <<>>
    /\ moexFault' = "none"
    /\ yahooFault' = "none"
    /\ moexDf' = EmptyDf
    /\ yahooDf' = EmptyDf
    /\ moexPrice' = None
    /\ yahooPrice' = None
    /\ df' = EmptyDf
    /\ price' = None
    /\ last' = NoRow
    /\ parts' = NoParts
    /\ line' = "NONE"
    /\ report' = "none"
    /\ raised' = FALSE

\* get_history: df = _moex_history(ticker); return df if not df.empty else ...
GetHistoryPrimary ==
    /\ pc = "primary"
    /\ op = "analysis"
    /\ \E resp \in HistoryResponses :
         LET o == MoexHistory(resp)
         IN /\ calls' = Append(calls, "moex")
            /\ moexFault' = FaultOf(resp)
            /\ moexDf' = o.val
            /\ raised' = o.exc
            /\ IF o.exc THEN pc' = "done" /\ df' = df
               ELSE IF DfEmpty(o.val) THEN pc' = "secondary" /\ df' = df
               ELSE pc' = "analyse" /\ df' = o.val
    /\ UNCHANGED <<op, yahooFault, yahooDf, moexPrice, yahooPrice, price,
                   last, parts, line, report>>

\* get_history: ... else _yahoo_history(ticker)
GetHistorySecondary ==
    /\ pc = "secondary"
    /\ op = "analysis"
    /\ \E resp \in HistoryResponses :
         LET o == YahooHistory(resp)
         IN /\ calls' = Append(calls, "yahoo")
            /\ yahooFault' = FaultOf(resp)
            /\ yahooDf' = o.val
            /\ raised' = o.exc
            /\ df' = o.val
            /\ pc' = IF o.exc THEN "done" ELSE "analyse"
    /\ UNCHANGED <<op, moexFault, moexDf, moexPrice, yahooPrice, price,
                   last, parts, line, report>>

\* build_analysis after get_history has returned
BuildAnalysis ==
    /\ pc = "analyse"
    /\ op = "analysis"
    /\ LET a == Analysis(df)
       IN /\ report' = a.report
          /\ last' = a.last
          /\ parts' = a.parts
          /\ line' = a.line
    /\ pc' = "done"
    /\ UNCHANGED <<op, calls, moexFault, yahooFault, moexDf, yahooDf,
                   moexPrice, yahooPrice, df, price, raised>>

\* get_price: price = _moex_price(ticker); return price if price else ...
GetPricePrimary ==
    /\ pc = "primary"
    /\ op = "price"
    /\ \E resp \in PriceResponses :
         LET o == MoexPrice(resp)
         IN /\ calls' = Append(calls, "moex")
            /\ moexFault' = FaultOf(resp)
            /\ moexPrice' = o.val
            /\ raised' = o.exc
            /\ IF o.exc THEN pc' = "done" /\ price' = price
               ELSE IF Truthy(o.val) THEN pc' = "done" /\ price' = o.val
               ELSE pc' = "secondary" /\ price' = price
    /\ UNCHANGED <<op, yahooFault, moexDf, yahooDf, yahooPrice, df, last,
                   parts, line, report>>

\* get_price: ... else _yahoo_price(ticker)
GetPriceSecondary ==
    /\ pc = "secondary"
    /\ op = "price"
    /\ \E resp \in PriceResponses :
         LET o == YahooPrice(resp)
         IN /\ calls' = Append(calls, "yahoo")
            /\ yahooFault' = FaultOf(resp)
            /\ yahooPrice' = o.val
            /\ raised' = o.exc
            /\ price' = o.val
            /\ pc' = "done"
    /\ UNCHANGED <<op, moexFault, moexDf, yahooDf, moexPrice, df, last,
                   parts, line, report>>

Next ==
    \/ \E o \in {"price", "analysis"} : Start(o)
    \/ GetHistoryPrimary
    \/ GetHistorySecondary
    \/ BuildAnalysis
    \/ GetPricePrimary
    \/ GetPriceSecondary

Spec == Init /\ [][Next]_vars

\* ------------------------------------------------------------------------
\* The decision rule on its own: last rows drawn from a grid of values
\* around the thresholds, NaN included
\* ------------------------------------------------------------------------
MaGrid == {NaN, Float(1), Float(2)}
MacdGrid == {NaN, Float(0), Float(1)}
RsiGrid ==
    {NaN, Float(0), Float(100)}
    \cup {Num(Float(t).v + e) : t \in {Oversold, Overbought}, e \in {0 - 1, 0, 1}}
LastRows ==
    {[Close |-> Float(1), ma5 |-> a, ma20 |-> b, rsi |-> r, macd |-> m,
      signal |-> s] :
        a \in MaGrid, b \in MaGrid, r \in RsiGrid, m \in MacdGrid, s \in MacdGrid}

InitEval == \E l \in LastRows : Fresh("row", "evaluate", l)

\* the if / elif / else of build_analysis applied to the row
EvaluateRow ==
    /\ pc = "row"
    /\ op = "evaluate"
    /\ line' = Evaluate(last)
    /\ report' = "analysis"
    /\ pc' = "done"
    /\ UNCHANGED <<op, calls, moexFault, yahooFault, moexDf, yahooDf,
                   moexPrice, yahooPrice, df, price, last, parts, raised>>

NextEval == EvaluateRow

SpecEval == InitEval /\ [][NextEval]_vars



\* ------------------------------------------------------------------------
\* Properties
\* ------------------------------------------------------------------------
Called(a) == \E i \in 1..Len(calls) : calls[i] = a
HistoryReturned == op = "analysis" /\ pc \in {"analyse", "done"} /\ ~raised
Analysed == op = "analysis" /\ pc = "done" /\ report = "analysis"
PriceReturned == op = "price" /\ pc = "done" /\ ~raised

\* C1: in get_history the MOEX adapter is invoked exactly once and first, the
\* Yahoo adapter at most once and only after MOEX returned an empty frame;
\* when MOEX returns a non-empty frame Yahoo is not invoked and the frame
\* returned is MOEX's.
C1_PrimaryFirstSecondaryOnlyOnEmpty ==
    op = "analysis" =>
        /\ calls \in {<<>>, <<"moex">>, <<"moex", "yahoo">>}
        /\ (pc \in {"secondary", "analyse", "done"} => Called("moex"))
        /\ (Called("yahoo") => Len(moexDf) = 0)
        /\ (HistoryReturned /\ Len(moexDf) > 0
              => calls = <<"moex">> /\ df = moexDf)

C1_Witness ==
    /\ HistoryReturned
    /\ pc = "done"
    /\ Len(moexDf) > 0
    /\ calls = <<"moex">>
    /\ df = moexDf

\* C2: get_price consults Yahoo if and only if the MOEX adapter returned
\* None; a price returned by MOEX is returned as it is, and when MOEX
\* returned None the result is Yahoo's.
C2_SecondaryIffPrimaryAbsent ==
    PriceReturned =>
        /\ Called("yahoo") <=> (moexPrice = None)
        /\ (moexPrice # None => price = moexPrice)
        /\ (moexPrice = None => price = yahooPrice)

NonNull(l) ==
    /\ ~IsNaN(l.ma5)
    /\ ~IsNaN(l.ma20)
    /\ ~IsNaN(l.rsi)
    /\ ~IsNaN(l.macd)
    /\ ~IsNaN(l.signal)
BuyRule(l) ==
    l.ma5.v > l.ma20.v /\ l.macd.v > l.signal.v /\ l.rsi.v < Overbought * FxScale
SellRule(l) ==
    l.ma5.v < l.ma20.v /\ l.macd.v < l.signal.v /\ l.rsi.v > Oversold * FxScale

\* C3: on a last row with the five fields non-null the signal is BUY exactly
\* when ma5 > ma20, macd > signal and rsi < 70, SELL exactly when ma5 < ma20,
\* macd < signal and rsi > 30, NEUTRAL in every other case (ties included);
\* one outcome is produced and the two rules never hold together.
C3_SignalRule ==
    (op = "evaluate" /\ pc = "done" /\ NonNull(last)) =>
        /\ line \in {"BUY", "SELL", "NEUTRAL"}
        /\ (line = "BUY") <=> BuyRule(last)
        /\ (line = "SELL") <=> SellRule(last)
        /\ (line = "NEUTRAL") <=> (~BuyRule(last) /\ ~SellRule(last))
        /\ ~(BuyRule(last) /\ SellRule(last))

C3_Witness ==
    /\ op = "evaluate"
    /\ pc = "done"
    /\ NonNull(last)
    /\ last.ma5.v > last.ma20.v
    /\ last.macd.v > last.signal.v
    /\ last.rsi = Float(Overbought)
    /\ line = "NEUTRAL"

\* the 25 daily closes 100, 101, ..., 124
Ramp25 == ToFrame(TrendTable(100, 25, 1, 1))

RampIndicators ==
    /\ last.ma5 = Float(122)
    /\ last.ma20 = Num((229 * FxScale) \div 2)
    /\ last.rsi = Float(100)
    /\ Gt(last.macd, last.signal)
    /\ Gt(last.signal, Float(0))

\* C4 as stated: for the closes 100..124 the last row has ma5 = 122.0,
\* ma20 = 114.5, rsi = 100, macd > signal > 0, and the signal is BUY.
C4_RampIsBuy ==
    (Analysed /\ df = Ramp25) => (RampIndicators /\ line = "BUY")

\* C4 amended: for the closes 100..124 the last row has ma5 = 122.0,
\* ma20 = 114.5, rsi = 100, macd > signal > 0, and the signal is NEUTRAL,
\* because rsi = 100 is not below 70.
C4_RampIsNeutral ==
    (Analysed /\ df = Ramp25) => (RampIndicators /\ line = "NEUTRAL")

C4_Witness == Analysed /\ df = Ramp25 /\ line = "NEUTRAL"

\* C5: when both history adapters return an empty frame build_analysis
\* returns the no-data text: no signal line and no indicator is computed.
C5_NoDataIsNotASignal ==
    (op = "analysis" /\ pc = "done" /\ calls = <<"moex", "yahoo">>
       /\ Len(moexDf) = 0 /\ Len(yahooDf) = 0)
    => (report = "no_data" /\ line = "NONE" /\ last = NoRow /\ parts = NoParts)

C5_Witness ==
    /\ op = "analysis"
    /\ pc = "done"
    /\ calls = <<"moex", "yahoo">>
    /\ Len(moexDf) = 0
    /\ Len(yahooDf) = 0
    /\ report = "no_data"

\* C6: whatever the failure modes of the two adapters, get_price and
\* get_history end without an exception, a MOEX response that exhibits a
\* failure mode counts as None / empty, and when MOEX raises or times out
\* get_price returns what Yahoo returned.
C6_FailuresAbsorbed ==
    /\ ~raised
    /\ (op = "price" /\ Called("moex") /\ moexFault # "none"
          => moexPrice = None)
    /\ (op = "analysis" /\ Called("moex") /\ moexFault # "none"
          => Len(moexDf) = 0)
    /\ (PriceReturned /\ moexFault \in {"network_error", "timeout"}
          => Called("yahoo") /\ price = yahooPrice)

AnyNull(l) ==
    \/ IsNaN(l.ma5)
    \/ IsNaN(l.ma20)
    \/ IsNaN(l.rsi)
    \/ IsNaN(l.macd)
    \/ IsNaN(l.signal)

\* C7: when any of ma5, ma20, rsi, macd, signal is null on the last row the
\* signal is NEUTRAL and nothing is raised; in particular every non-empty
\* frame of fewer than 20 rows has a null ma20 and the signal NEUTRAL.
C7_NullFieldIsNeutral ==
    Analysed =>
        /\ (AnyNull(last) => line = "NEUTRAL" /\ ~raised)
        /\ (Len(df) < LongWindow => IsNaN(last.ma20) /\ line = "NEUTRAL")

C7_Witness ==
    /\ Analysed
    /\ Len(df) = LongWindow - 1
    /\ IsNaN(last.ma20)
    /\ Gt(last.ma5, Float(0))
    /\ Gt(last.macd, last.signal)
    /\ Lt(last.rsi, Float(Overbought))
    /\ line = "NEUTRAL"

StrictlyIncreasing(d) == \A i \in 2..Len(d) : Gt(d[i].Close, d[i - 1].Close)
Constant(d) ==
    \A i \in 1..Len(d) : IsNum(d[i].Close) /\ d[i].Close = d[1].Close

\* C8: when the 14-row average loss is 0, rsi is 100 if the average gain is
\* positive (so for every strictly increasing series of 15 rows or more) and
\* null if the average gain is 0 as well (so for a constant series).
C8_ZeroLossRsi ==
    Analysed =>
        /\ (parts.loss = Float(0) /\ Gt(parts.gain, Float(0))
              => last.rsi = Float(100))
        /\ (parts.loss = Float(0) /\ parts.gain = Float(0) => IsNaN(last.rsi))
        /\ (Len(df) > RsiWindow /\ StrictlyIncreasing(df)
              => parts.loss = Float(0) /\ last.rsi = Float(100))
        /\ (Len(df) > RsiWindow /\ Constant(df)
              => parts.loss = Float(0) /\ IsNaN(last.rsi))

C8_Witness ==
    /\ Analysed
    /\ Len(df) > RsiWindow
    /\ StrictlyIncreasing(df)
    /\ parts.loss = Float(0)
    /\ Gt(parts.gain, Float(0))
    /\ last.rsi = Float(100)

AllNull(d) == \A i \in 1..Len(d) : IsNaN(d[i].Close)

\* C9: a MOEX frame with no rows or with only null closes counts as empty:
\* Yahoo is consulted and its frame is the one returned.
C9_AllNullTriggersFallback ==
    (HistoryReturned /\ AllNull(moexDf))
    => (calls = <<"moex", "yahoo">> /\ df = yahooDf)

WellFormed(d) ==
    /\ \A i \in 2..Len(d) : d[i - 1].Date < d[i].Date
    /\ \A i \in 1..Len(d) : ~IsNaN(d[i].Close)

\* C10: the frames returned by _moex_history, _yahoo_history and get_history
\* have strictly ascending dates, no repeated date and no null close.
C10_SeriesSortedUniqueNonNull ==
    op = "analysis" => (WellFormed(moexDf) /\ WellFormed(yahooDf) /\ WellFormed(df))

====
